---- MODULE Spec2Model ----
(***************************************************************************)
(* Voice Notes: the drawing front end (App.tsx: History, Redo Buffer,      *)
(* redraw, localStorage snapshot, speak) and the /api/speak handler        *)
(* (backend/src/index.ts).                                                 *)
(*                                                                         *)
(* The front end is a React function component.  One action below is one   *)
(* event handler together with the render and the [history] effect that    *)
(* React runs because of it.                                               *)
(***************************************************************************)
EXTENDS Integers, Sequences, FiniteSets, TLC

VARIABLES
  pc,               \* "boot" | "rerender" | "running" | "crashed"
  history,          \* useState<Stroke[]>([])
  redo,             \* useState<Stroke[]>([])  (Redo Buffer)
  isDrawing,        \* useState(false)
  color,            \* useState("#000000"), as a colour index
  size,             \* useState(5)
  eraseMode,        \* useState(false)
  pending,          \* the value handed to setHistory by the load effect
  listenerHistory,  \* the history closed over by the registered resize listener
  canvas,           \* the <canvas>: width, height and what has been painted
  slot,             \* localStorage["drawing"]
  isLoading,        \* useState(false)
  error,            \* useState<string | null>(null)
  calls,            \* the sendToAPI invocations, in the order they were started
  played,           \* how many times new Audio(...).play() ran
  credentialsLoaded,\* server: set once by the start-up try block
  handler,          \* server: the /api/speak handler the running server file registers
  env,              \* server: process.env, as far as the handlers read it
  reqs,             \* server: the /api/speak requests, in order of arrival
  lastOp,           \* observer: the handler that ran last
  run,              \* observer: the current run of undo calls followed by redo calls
  boot,             \* observer: what the session held when the page was reloaded
  afterStart,       \* observer: what startDrawing left, and whether redo came next
  lastClear,        \* observer: what the latest clearAll found
  ended,            \* observer: the strokes a pointer-up has closed, and the open one
  lines,            \* DrawingCanvas: useState<Konva.Line[]>([])
  isDrawingRef,     \* DrawingCanvas: isDrawing = useRef(false), its .current
  gesture           \* observer: DrawingCanvas, the pointer since its latest pointer-down

drawVars == <<pc, history, redo, isDrawing, color, size, eraseMode, pending,
              listenerHistory, canvas, slot>>
speakVars == <<isLoading, error, calls, played>>
serverVars == <<credentialsLoaded, handler, env, reqs>>
obsVars == <<lastOp, run, boot, afterStart, lastClear, ended>>
konvaVars == <<lines, isDrawingRef, gesture>>
vars == <<pc, history, redo, isDrawing, color, size, eraseMode, pending,
          listenerHistory, canvas, slot, isLoading, error, calls, played,
          credentialsLoaded, handler, env, reqs, lastOp, run, boot, afterStart,
          lastClear, ended, lines, isDrawingRef, gesture>>

---------------------------------------------------------------------------
(* Bounds of the model *)

\* Strokes a History may hold
MaxStrokes == 2
\* Points a Stroke may hold
MaxPoints == 2
\* Longest run of undo calls the observer follows
MaxRun == 3
\* sendToAPI invocations of one page load
MaxCalls == 2
\* /api/speak requests the server receives
MaxReqs == 2

---------------------------------------------------------------------------
(* Inputs *)

\* getBoundingClientRect() of the canvas
Rect == [left |-> 1, top |-> 1]
\* pointer positions in client coordinates
ClientXs == {1, 2}
ClientYs == {1}
\* clientX of the pointer-move events
MoveXs == {2}
\* the value the colour input and the thickness slider (min 2, max 40) are moved to
Colors == {1}
Sizes == {9}
\* parent.clientWidth x parent.clientHeight
ParentSizes == {<<2, 2>>, <<3, 2>>}
\* a canvas element before resizeCanvas has sized it
DefaultCanvas == [width |-> 1, height |-> 1, ops |-> <<>>]

---------------------------------------------------------------------------
(* Pure helpers *)

Last(s) == s[Len(s)]
Front(s) == SubSeq(s, 1, Len(s) - 1)

getPos(clientX, clientY) ==
  [x |-> clientX - Rect.left, y |-> clientY - Rect.top]

\* One stroke painted by redrawCanvas: lineWidth, strokeStyle,
\* globalCompositeOperation and the path moveTo/lineTo.
PaintOp(stroke) ==
  [lineWidth |-> stroke.size,
   strokeStyle |-> IF stroke.erase THEN -1 ELSE stroke.color,
   composite |-> IF stroke.erase THEN "destination-out" ELSE "source-over",
   path |-> stroke.points]

RECURSIVE PaintAll(_, _)
PaintAll(ops, h) ==
  IF h = <<>> THEN ops ELSE PaintAll(Append(ops, PaintOp(Head(h))), Tail(h))

\* ctx.clearRect(0, 0, canvas.width, canvas.height)
clearRect(cv) == [cv EXCEPT !.ops = <<>>]

redrawCanvasNoClear(cv, h) ==
  [cv EXCEPT !.ops = PaintAll(cv.ops, h)]

redrawCanvas(cv, h) ==
  LET cleared == clearRect(cv) IN [cleared EXCEPT !.ops = PaintAll(cleared.ops, h)]

\* canvas.width = ...; canvas.height = ...  (assigning a dimension clears the bitmap)
SetCanvasSize(cv, w, h) == [width |-> w, height |-> h, ops |-> <<>>]

---------------------------------------------------------------------------
(* JSON.stringify / JSON.parse of a History, as a token stream *)

Tok == [lb |-> -1, rb |-> -2, lc |-> -3, rc |-> -4]

RECURSIVE SerPoints(_)
SerPoints(ps) ==
  IF ps = <<>> THEN <<>> ELSE <<Head(ps).x, Head(ps).y>> \o SerPoints(Tail(ps))

SerStroke(s) ==
  <<Tok.lc, Tok.lb>> \o SerPoints(s.points)
    \o <<Tok.rb, s.color, s.size, IF s.erase THEN 1 ELSE 0, Tok.rc>>

RECURSIVE SerStrokes(_)
SerStrokes(h) == IF h = <<>> THEN <<>> ELSE SerStroke(Head(h)) \o SerStrokes(Tail(h))

JSONstringify(h) == <<Tok.lb>> \o SerStrokes(h) \o <<Tok.rb>>

ParseFail == [ok |-> FALSE, val |-> <<>>, next |-> 0]

RECURSIVE ParsePoints(_, _, _)
ParsePoints(t, i, acc) ==
  IF i > Len(t) THEN ParseFail
  ELSE IF t[i] = Tok.rb THEN [ok |-> TRUE, val |-> acc, next |-> i + 1]
  ELSE IF i + 1 <= Len(t) /\ t[i] >= 0 /\ t[i + 1] >= 0
       THEN ParsePoints(t, i + 2, Append(acc, [x |-> t[i], y |-> t[i + 1]]))
       ELSE ParseFail

ParseStroke(t, i) ==
  IF i + 1 > Len(t) \/ t[i] # Tok.lc \/ t[i + 1] # Tok.lb THEN ParseFail
  ELSE LET p == ParsePoints(t, i + 2, <<>>)
           j == p.next
       IN IF ~p.ok \/ j + 3 > Len(t) THEN ParseFail
          ELSE IF t[j] < 0 \/ t[j + 1] < 0 \/ t[j + 2] \notin {0, 1} \/ t[j + 3] # Tok.rc
               THEN ParseFail
               ELSE [ok |-> TRUE,
                     val |-> [points |-> p.val, color |-> t[j], size |-> t[j + 1],
                              erase |-> (t[j + 2] = 1)],
                     next |-> j + 4]

RECURSIVE ParseStrokes(_, _, _)
ParseStrokes(t, i, acc) ==
  IF i > Len(t) THEN ParseFail
  ELSE IF t[i] = Tok.rb THEN [ok |-> TRUE, val |-> acc, next |-> i + 1]
  ELSE LET s == ParseStroke(t, i)
       IN IF s.ok THEN ParseStrokes(t, s.next, Append(acc, s.val)) ELSE ParseFail

\* kind "history": an array of strokes; "other": valid JSON that is no History;
\* "syntax": JSON.parse throws SyntaxError
JSONparse(t) ==
  IF t # <<>> /\ t[1] = Tok.lb
  THEN LET r == ParseStrokes(t, 2, <<>>)
       IN IF r.ok /\ r.next = Len(t) + 1
          THEN [kind |-> "history", value |-> r.val]
          ELSE [kind |-> "syntax", value |-> <<>>]
  ELSE IF Len(t) = 1 /\ t[1] >= 0
       THEN [kind |-> "other", value |-> <<>>]
       ELSE [kind |-> "syntax", value |-> <<>>]

\* localStorage: getItem gives null for a missing key
NoItem == [present |-> FALSE, text |-> <<>>]
Item(t) == [present |-> TRUE, text |-> t]
\* if (saved): null and "" are falsy
Truthy(item) == item.present /\ item.text # <<>>

\* what localStorage may hold when the page is first opened
InitSlots ==
  {NoItem, Item(<<>>), Item(<<Tok.lb>>), Item(<<Tok.lb, Tok.lc, Tok.rb>>), Item(<<7>>)}

---------------------------------------------------------------------------
(* Observers *)

NoError == [set |-> FALSE, kind |-> "none", status |-> 0]

NoRun == [active |-> FALSE, h0 |-> <<>>, r0empty |-> TRUE, u |-> 0, r |-> 0]
NoBoot == [active |-> FALSE, saved |-> <<>>, hadRedo |-> FALSE]
NoPending == [set |-> FALSE, kind |-> "history", value |-> <<>>]
NoStart ==
  [active |-> FALSE, hadRedo |-> FALSE, redone |-> FALSE, h |-> <<>>, client |-> <<0, 0>>]

\* ended.inHistory[k] / ended.inRedo[k]: a pointer-up (or the pointer leaving the
\* canvas) came while stroke k of History / of the Redo Buffer was the stroke of
\* the latest pointer-down.  ended.openAt: where the stroke of the latest
\* pointer-down is while no pointer-up has come: k > 0 is History[k], k < 0 is
\* the Redo Buffer at -k, 0 is nowhere.
NoClear == [active |-> FALSE, strokes |-> 0, undone |-> 0, drawing |-> FALSE]

NoEnded == [inHistory |-> <<>>, inRedo |-> <<>>, openAt |-> 0]

EndedAfterStart(keepRedo) ==
  [inHistory |-> Append(ended.inHistory, FALSE),
   inRedo |-> IF keepRedo THEN ended.inRedo ELSE <<>>,
   openAt |-> Len(ended.inHistory) + 1]

EndedAfterStop ==
  [inHistory |-> [k \in DOMAIN ended.inHistory |->
                    ended.inHistory[k] \/ k = ended.openAt],
   inRedo |-> [k \in DOMAIN ended.inRedo |-> ended.inRedo[k] \/ -k = ended.openAt],
   openAt |-> 0]

EndedAfterUndo ==
  IF ended.inHistory = <<>> THEN ended
  ELSE [inHistory |-> SubSeq(ended.inHistory, 1, Len(ended.inHistory) - 1),
        inRedo |-> Append(ended.inRedo, ended.inHistory[Len(ended.inHistory)]),
        openAt |-> IF ended.openAt = Len(ended.inHistory)
                   THEN -(Len(ended.inRedo) + 1) ELSE ended.openAt]

EndedAfterRedo ==
  IF ended.inRedo = <<>> THEN ended
  ELSE [inHistory |-> Append(ended.inHistory, ended.inRedo[Len(ended.inRedo)]),
        inRedo |-> SubSeq(ended.inRedo, 1, Len(ended.inRedo) - 1),
        openAt |-> IF ended.openAt = -Len(ended.inRedo)
                   THEN Len(ended.inHistory) + 1 ELSE ended.openAt]

\* strokes read back from storage: no pointer-up of this session has closed them
EndedAfterLoad(h) ==
  [inHistory |-> [k \in DOMAIN h |-> FALSE], inRedo |-> <<>>, openAt |-> 0]

---------------------------------------------------------------------------
(* State after the first render, before any effect has run *)

InitDraw ==
  /\ pc = "boot"
  /\ history = <<>>
  /\ redo = <<>>
  /\ isDrawing = FALSE
  /\ color = 0
  /\ size = 5
  /\ eraseMode = FALSE
  /\ pending = NoPending
  /\ listenerHistory = <<>>
  /\ canvas = DefaultCanvas
  /\ lastOp = "boot"
  /\ run = NoRun
  /\ boot = NoBoot
  /\ afterStart = NoStart
  /\ lastClear = NoClear
  /\ ended = NoEnded

InitSpeak ==
  /\ isLoading = FALSE
  /\ error = NoError
  /\ calls = <<>>
  /\ played = 0

---------------------------------------------------------------------------
(* Effects *)

\* useEffect(() => { redrawCanvas(); localStorage.setItem(...) }, [history])
\* run for the history value h of the render being committed
HistoryEffect(h) ==
  /\ canvas' = redrawCanvas(canvas, h)
  /\ slot' = Item(JSONstringify(h))

\* the same effect when the handler returned the array it was given:
\* React bails out, nothing is rendered and no effect runs
NoEffect ==
  /\ UNCHANGED <<canvas, slot>>

MountEffectSaveFirst(w, h) ==
  /\ pc = "boot"
  /\ lastOp' = "mount"
  /\ UNCHANGED <<history, redo, isDrawing, color, size, eraseMode, run, boot, afterStart,
                 lastClear, ended, lines, isDrawingRef, gesture>>
  /\ UNCHANGED <<speakVars, serverVars, konvaVars>>
  /\ pending' = [set |-> TRUE, kind |-> "history", value |-> history]
  /\ canvas' = redrawCanvas(SetCanvasSize(canvas, w, h), history)
  /\ listenerHistory' = history
  /\ slot' = Item(JSONstringify(history))
  /\ pc' = "rerender"

\* The two effects of the first commit, in order.
MountEffect(w, h) ==
  /\ pc = "boot"
  /\ lastOp' = "mount"
  /\ UNCHANGED <<history, redo, isDrawing, color, size, eraseMode, run, boot, afterStart,
                 lastClear, ended, lines, isDrawingRef, gesture>>
  /\ UNCHANGED <<speakVars, serverVars, konvaVars>>
  /\ IF Truthy(slot) /\ JSONparse(slot.text).kind = "syntax"
     THEN \* JSON.parse throws inside the effect: the tree is unmounted
          /\ pc' = "crashed"
          /\ UNCHANGED <<pending, listenerHistory, canvas, slot>>
     ELSE /\ pending' = IF Truthy(slot)
                        THEN [set |-> TRUE, kind |-> JSONparse(slot.text).kind,
                              value |-> JSONparse(slot.text).value]
                        ELSE NoPending
          \* resizeCanvas(), then the [history] effect of the first render
          /\ canvas' = redrawCanvas(redrawCanvas(SetCanvasSize(canvas, w, h), history),
                                    history)
          /\ listenerHistory' = history
          /\ slot' = Item(JSONstringify(history))
          /\ pc' = IF Truthy(slot) THEN "rerender" ELSE "running"

\* The render caused by setHistory(JSON.parse(saved)) and its [history] effect.
StartupRender ==
  /\ pc = "rerender"
  /\ lastOp' = "startup"
  /\ pending' = NoPending
  /\ UNCHANGED <<redo, isDrawing, color, size, eraseMode, listenerHistory, run, boot,
                 afterStart, lastClear>>
  /\ UNCHANGED <<speakVars, serverVars, konvaVars>>
  /\ IF pending.kind = "history"
     THEN /\ history' = pending.value
          /\ HistoryEffect(history')
          /\ ended' = EndedAfterLoad(history')
          /\ pc' = "running"
     ELSE \* history.forEach is not a function: redrawCanvas throws in the effect
          /\ pc' = "crashed"
          /\ UNCHANGED <<history, canvas, slot, ended>>

---------------------------------------------------------------------------
(* Drawing events *)

NewStroke(pos) == [points |-> <<pos>>, color |-> color, size |-> size, erase |-> eraseMode]

startDrawingKeepRedo(clientX, clientY) ==
  /\ pc = "running"
  /\ Len(history) < MaxStrokes
  /\ isDrawing' = TRUE
  /\ redo' = redo
  /\ history' = Append(history, NewStroke(getPos(clientX, clientY)))
  /\ HistoryEffect(history')
  /\ lastOp' = "startDrawing"
  /\ run' = NoRun
  /\ lastClear' = NoClear
  /\ boot' = NoBoot
  /\ afterStart' = [active |-> TRUE, hadRedo |-> (redo # <<>>), redone |-> FALSE,
                    h |-> history', client |-> <<clientX, clientY>>]
  /\ ended' = EndedAfterStart(TRUE)
  /\ UNCHANGED <<speakVars, serverVars, konvaVars>>
  /\ UNCHANGED <<pc, color, size, eraseMode, pending, listenerHistory>>

startDrawingRaw(clientX, clientY) ==
  /\ pc = "running"
  /\ Len(history) < MaxStrokes
  /\ isDrawing' = TRUE
  /\ redo' = <<>>
  /\ history' = Append(history, NewStroke([x |-> clientX, y |-> clientY]))
  /\ HistoryEffect(history')
  /\ lastOp' = "startDrawing"
  /\ run' = NoRun
  /\ lastClear' = NoClear
  /\ boot' = NoBoot
  /\ afterStart' = [active |-> TRUE, hadRedo |-> (redo # <<>>), redone |-> FALSE,
                    h |-> history', client |-> <<clientX, clientY>>]
  /\ ended' = EndedAfterStart(FALSE)
  /\ UNCHANGED <<speakVars, serverVars, konvaVars>>
  /\ UNCHANGED <<pc, color, size, eraseMode, pending, listenerHistory>>

startDrawing(clientX, clientY) ==
  /\ pc = "running"
  /\ Len(history) < MaxStrokes
  /\ isDrawing' = TRUE
  /\ redo' = <<>>
  /\ history' = Append(history, NewStroke(getPos(clientX, clientY)))
  /\ HistoryEffect(history')
  /\ lastOp' = "startDrawing"
  /\ run' = NoRun
  /\ lastClear' = NoClear
  /\ boot' = NoBoot
  /\ afterStart' = [active |-> TRUE, hadRedo |-> (redo # <<>>), redone |-> FALSE,
                    h |-> history', client |-> <<clientX, clientY>>]
  /\ ended' = EndedAfterStart(FALSE)
  /\ UNCHANGED <<speakVars, serverVars, konvaVars>>
  /\ UNCHANGED <<pc, color, size, eraseMode, pending, listenerHistory>>

drawNoSave(clientX, clientY) ==
  /\ pc = "running"
  /\ lastOp' = "draw"
  /\ run' = NoRun
  /\ lastClear' = NoClear
  /\ boot' = NoBoot
  /\ afterStart' = NoStart
  /\ UNCHANGED <<speakVars, serverVars, konvaVars>>
  /\ UNCHANGED <<redo, isDrawing, color, size, eraseMode, pending, listenerHistory,
                 ended>>
  /\ IF ~isDrawing
     THEN UNCHANGED <<pc, history>> /\ NoEffect
     ELSE IF history = <<>>
     THEN pc' = "crashed" /\ UNCHANGED history /\ NoEffect
     ELSE /\ Len(Last(history).points) < MaxPoints
          /\ history' = [history EXCEPT ![Len(history)].points =
                            Append(@, getPos(clientX, clientY))]
          /\ NoEffect
          /\ UNCHANGED pc

drawRestyle(clientX, clientY) ==
  /\ pc = "running"
  /\ lastOp' = "draw"
  /\ run' = NoRun
  /\ lastClear' = NoClear
  /\ boot' = NoBoot
  /\ afterStart' = NoStart
  /\ UNCHANGED <<speakVars, serverVars, konvaVars>>
  /\ UNCHANGED <<redo, isDrawing, color, size, eraseMode, pending, listenerHistory,
                 ended>>
  /\ IF ~isDrawing
     THEN UNCHANGED <<pc, history>> /\ NoEffect
     ELSE IF history = <<>>
     THEN pc' = "crashed" /\ UNCHANGED history /\ NoEffect
     ELSE /\ Len(Last(history).points) < MaxPoints
          /\ history' = [history EXCEPT ![Len(history)] =
                            [points |-> Append(@.points, getPos(clientX, clientY)),
                             color |-> @.color, size |-> size, erase |-> @.erase]]
          /\ HistoryEffect(history')
          /\ UNCHANGED pc

drawOverwrite(clientX, clientY) ==
  /\ pc = "running"
  /\ lastOp' = "draw"
  /\ run' = NoRun
  /\ lastClear' = NoClear
  /\ boot' = NoBoot
  /\ afterStart' = NoStart
  /\ UNCHANGED <<speakVars, serverVars, konvaVars>>
  /\ UNCHANGED <<redo, isDrawing, color, size, eraseMode, pending, listenerHistory,
                 ended>>
  /\ IF ~isDrawing
     THEN UNCHANGED <<pc, history>> /\ NoEffect
     ELSE IF history = <<>>
     THEN pc' = "crashed" /\ UNCHANGED history /\ NoEffect
     ELSE /\ Len(Last(history).points) < MaxPoints
          /\ history' = [history EXCEPT ![Len(history)].points =
                            Append(Front(@), getPos(clientX, clientY))]
          /\ HistoryEffect(history')
          /\ UNCHANGED pc

drawAlways(clientX, clientY) ==
  /\ pc = "running"
  /\ lastOp' = "draw"
  /\ run' = NoRun
  /\ lastClear' = NoClear
  /\ boot' = NoBoot
  /\ afterStart' = NoStart
  /\ UNCHANGED <<speakVars, serverVars, konvaVars>>
  /\ UNCHANGED <<redo, isDrawing, color, size, eraseMode, pending, listenerHistory,
                 ended>>
  /\ IF history = <<>>
     THEN pc' = "crashed" /\ UNCHANGED history /\ NoEffect
     ELSE /\ Len(Last(history).points) < MaxPoints
          /\ history' = [history EXCEPT ![Len(history)].points =
                            Append(@, getPos(clientX, clientY))]
          /\ HistoryEffect(history')
          /\ UNCHANGED pc

draw(clientX, clientY) ==
  /\ pc = "running"
  /\ lastOp' = "draw"
  /\ run' = NoRun
  /\ lastClear' = NoClear
  /\ boot' = NoBoot
  /\ afterStart' = NoStart
  /\ UNCHANGED <<speakVars, serverVars, konvaVars>>
  /\ UNCHANGED <<redo, isDrawing, color, size, eraseMode, pending, listenerHistory,
                 ended>>
  /\ IF ~isDrawing
     THEN \* if (!isDrawing) return;
          UNCHANGED <<pc, history>> /\ NoEffect
     ELSE IF history = <<>>
     THEN \* updated[-1] is undefined: the updater throws and the tree is unmounted
          pc' = "crashed" /\ UNCHANGED history /\ NoEffect
     ELSE /\ Len(Last(history).points) < MaxPoints
          /\ history' = [history EXCEPT ![Len(history)].points =
                            Append(@, getPos(clientX, clientY))]
          /\ HistoryEffect(history')
          /\ UNCHANGED pc

stopDrawing ==
  /\ pc = "running"
  /\ isDrawing' = FALSE
  /\ lastOp' = "stopDrawing"
  /\ run' = NoRun
  /\ lastClear' = NoClear
  /\ boot' = NoBoot
  /\ afterStart' = NoStart
  /\ ended' = EndedAfterStop
  /\ UNCHANGED <<speakVars, serverVars, konvaVars>>
  /\ UNCHANGED <<pc, history, redo, color, size, eraseMode, pending, listenerHistory,
                 canvas, slot>>

---------------------------------------------------------------------------
(* Toolbar *)

\* the observer's count of a run of undo calls
RunAfterUndo ==
  IF run.active /\ run.r = 0
  THEN IF run.u < MaxRun THEN [run EXCEPT !.u = @ + 1] ELSE NoRun
  ELSE [active |-> TRUE, h0 |-> history, r0empty |-> (redo = <<>>), u |-> 1, r |-> 0]

RunAfterRedo ==
  IF run.active /\ run.r < run.u THEN [run EXCEPT !.r = @ + 1] ELSE NoRun

undoPrepend ==
  /\ pc = "running"
  /\ lastOp' = "undo"
  /\ run' = RunAfterUndo
  /\ lastClear' = NoClear
  /\ boot' = NoBoot
  /\ afterStart' = NoStart
  /\ UNCHANGED <<speakVars, serverVars, konvaVars>>
  /\ UNCHANGED <<pc, isDrawing, color, size, eraseMode, pending, listenerHistory>>
  /\ IF history = <<>>
     THEN UNCHANGED <<history, redo, ended>> /\ NoEffect
     ELSE /\ redo' = <<Last(history)>> \o redo
          /\ history' = Front(history)
          /\ ended' = [inHistory |-> Front(ended.inHistory),
                       inRedo |-> <<Last(ended.inHistory)>> \o ended.inRedo,
                       openAt |-> 0]
          /\ HistoryEffect(history')

undoTruncate ==
  /\ pc = "running"
  /\ lastOp' = "undo"
  /\ run' = RunAfterUndo
  /\ lastClear' = NoClear
  /\ boot' = NoBoot
  /\ afterStart' = NoStart
  /\ UNCHANGED <<speakVars, serverVars, konvaVars>>
  /\ UNCHANGED <<pc, isDrawing, color, size, eraseMode, pending, listenerHistory>>
  /\ IF history = <<>>
     THEN UNCHANGED <<history, redo, ended>> /\ NoEffect
     ELSE /\ redo' = Append(redo, [Last(history) EXCEPT !.points = <<Head(@)>>])
          /\ history' = Front(history)
          /\ ended' = EndedAfterUndo
          /\ HistoryEffect(history')

\* The setHistory updater calls setRedo; it is taken to run once per click, as
\* in a production build (React's StrictMode runs updaters twice in development).
undo ==
  /\ pc = "running"
  /\ lastOp' = "undo"
  /\ run' = RunAfterUndo
  /\ lastClear' = NoClear
  /\ boot' = NoBoot
  /\ afterStart' = NoStart
  /\ UNCHANGED <<speakVars, serverVars, konvaVars>>
  /\ UNCHANGED <<pc, isDrawing, color, size, eraseMode, pending, listenerHistory>>
  /\ IF history = <<>>
     THEN UNCHANGED <<history, redo, ended>> /\ NoEffect
     ELSE /\ redo' = Append(redo, Last(history))
          /\ history' = Front(history)
          /\ ended' = EndedAfterUndo
          /\ HistoryEffect(history')

redoActionKeep ==
  /\ pc = "running"
  /\ lastOp' = "redoAction"
  /\ run' = RunAfterRedo
  /\ lastClear' = NoClear
  /\ boot' = NoBoot
  /\ afterStart' = IF afterStart.active /\ ~afterStart.redone
                   THEN [afterStart EXCEPT !.redone = TRUE] ELSE NoStart
  /\ UNCHANGED <<speakVars, serverVars, konvaVars>>
  /\ UNCHANGED <<pc, isDrawing, color, size, eraseMode, pending, listenerHistory>>
  /\ IF redo = <<>>
     THEN UNCHANGED <<history, redo, ended>> /\ NoEffect
     ELSE /\ history' = Append(history, Last(redo))
          /\ redo' = redo
          /\ ended' = [EndedAfterRedo EXCEPT !.inRedo = ended.inRedo]
          /\ HistoryEffect(history')

redoActionAtFront ==
  /\ pc = "running"
  /\ lastOp' = "redoAction"
  /\ run' = RunAfterRedo
  /\ lastClear' = NoClear
  /\ boot' = NoBoot
  /\ afterStart' = IF afterStart.active /\ ~afterStart.redone
                   THEN [afterStart EXCEPT !.redone = TRUE] ELSE NoStart
  /\ UNCHANGED <<speakVars, serverVars, konvaVars>>
  /\ UNCHANGED <<pc, isDrawing, color, size, eraseMode, pending, listenerHistory>>
  /\ IF redo = <<>>
     THEN UNCHANGED <<history, redo, ended>> /\ NoEffect
     ELSE /\ history' = <<Last(redo)>> \o history
          /\ redo' = Front(redo)
          /\ ended' = EndedAfterRedo
          /\ HistoryEffect(history')

redoAction ==
  /\ pc = "running"
  /\ lastOp' = "redoAction"
  /\ run' = RunAfterRedo
  /\ lastClear' = NoClear
  /\ boot' = NoBoot
  /\ afterStart' = IF afterStart.active /\ ~afterStart.redone
                   THEN [afterStart EXCEPT !.redone = TRUE] ELSE NoStart
  /\ UNCHANGED <<speakVars, serverVars, konvaVars>>
  /\ UNCHANGED <<pc, isDrawing, color, size, eraseMode, pending, listenerHistory>>
  /\ IF redo = <<>>
     THEN UNCHANGED <<history, redo, ended>> /\ NoEffect
     ELSE /\ history' = Append(history, Last(redo))
          /\ redo' = Front(redo)
          /\ ended' = EndedAfterRedo
          /\ HistoryEffect(history')

clearAllKeepRedo ==
  /\ pc = "running"
  /\ lastOp' = "clearAll"
  /\ run' = NoRun
  /\ lastClear' = [active |-> TRUE, strokes |-> Len(history), undone |-> Len(redo),
                drawing |-> isDrawing]
  /\ boot' = NoBoot
  /\ afterStart' = NoStart
  /\ UNCHANGED <<speakVars, serverVars, konvaVars>>
  /\ history' = <<>>
  /\ redo' = redo
  /\ ended' = NoEnded
  /\ HistoryEffect(history')
  /\ UNCHANGED <<pc, isDrawing, color, size, eraseMode, pending, listenerHistory>>

\* clearAll / newNote: setHistory([]); setRedo([]), the render and its effect
clearAll ==
  /\ pc = "running"
  /\ lastOp' = "clearAll"
  /\ run' = NoRun
  /\ lastClear' = [active |-> TRUE, strokes |-> Len(history), undone |-> Len(redo),
                drawing |-> isDrawing]
  /\ boot' = NoBoot
  /\ afterStart' = NoStart
  /\ UNCHANGED <<speakVars, serverVars, konvaVars>>
  /\ history' = <<>>
  /\ redo' = <<>>
  /\ ended' = NoEnded
  /\ HistoryEffect(history')
  /\ UNCHANGED <<pc, isDrawing, color, size, eraseMode, pending, listenerHistory>>

\* a toolbar control changes one of the style states; the render that follows
\* runs no effect, since history is the same array
SetStyle(op) ==
  /\ pc = "running"
  /\ lastOp' = op
  /\ run' = NoRun
  /\ lastClear' = NoClear
  /\ boot' = NoBoot
  /\ afterStart' = NoStart
  /\ UNCHANGED <<speakVars, serverVars, konvaVars>>
  /\ UNCHANGED <<pc, history, redo, isDrawing, pending, listenerHistory, canvas, slot,
                 ended>>

\* onChange of the colour input: setColor(e.target.value)
setColor(c) ==
  /\ SetStyle("setColor")
  /\ color' = c
  /\ UNCHANGED <<size, eraseMode>>

setSizeDecrement(n) ==
  /\ SetStyle("setSize")
  /\ size' = size - n
  /\ UNCHANGED <<color, eraseMode>>

\* onChange of the range input: setSize(Number(e.target.value))
setSize(n) ==
  /\ SetStyle("setSize")
  /\ size' = n
  /\ UNCHANGED <<color, eraseMode>>

\* onClick of the erase button: setEraseMode(!eraseMode)
setEraseMode ==
  /\ SetStyle("setEraseMode")
  /\ eraseMode' = ~eraseMode
  /\ UNCHANGED <<color, size>>

\* window "resize": the listener registered by the mount effect
resizeCanvas(w, h) ==
  /\ pc = "running"
  /\ lastOp' = "resize"
  /\ run' = NoRun
  /\ lastClear' = NoClear
  /\ boot' = NoBoot
  /\ afterStart' = NoStart
  /\ UNCHANGED <<speakVars, serverVars, konvaVars>>
  /\ canvas' = redrawCanvas(SetCanvasSize(canvas, w, h), listenerHistory)
  /\ UNCHANGED <<pc, history, redo, isDrawing, color, size, eraseMode, pending,
                 listenerHistory, slot, ended>>

\* the page is loaded again: component state starts over, localStorage stays
Reload ==
  /\ pc \in {"running", "crashed"}
  /\ pc' = "boot"
  /\ history' = <<>>
  /\ redo' = <<>>
  /\ isDrawing' = FALSE
  /\ color' = 0
  /\ size' = 5
  /\ eraseMode' = FALSE
  /\ pending' = NoPending
  /\ listenerHistory' = <<>>
  /\ canvas' = DefaultCanvas
  /\ lastOp' = "boot"
  /\ run' = NoRun
  /\ lastClear' = NoClear
  /\ boot' = [active |-> TRUE, saved |-> history, hadRedo |-> (redo # <<>>)]
  /\ afterStart' = NoStart
  /\ ended' = NoEnded
  /\ isLoading' = FALSE
  /\ error' = NoError
  /\ calls' = <<>>
  /\ played' = 0
  /\ UNCHANGED <<slot, serverVars, konvaVars>>


---------------------------------------------------------------------------
(* sendToAPI: the speak invocation of the front end *)

\* canvas.toDataURL(): the PNG of the bitmap as it is, behind a data-URL header
toDataURL(cv) ==
  [header |-> TRUE, width |-> cv.width, height |-> cv.height, ops |-> cv.ops]

NoImage == [header |-> FALSE, width |-> 0, height |-> 0, ops |-> <<>>]

\* the statuses the endpoint answers with
Statuses == {200, 400, 444, 500}
\* Response.ok
ok(status) == status >= 200 /\ status <= 299

SetCall(i, stage, status) ==
  [calls EXCEPT ![i] = [pc |-> stage, image |-> NoImage, status |-> status,
                        fetches |-> calls[i].fetches]]

\* setError / setIsLoading reach the component only while it is mounted
Finally(err) ==
  /\ isLoading' = IF pc = "running" THEN FALSE ELSE isLoading
  /\ error' = IF pc = "running" THEN err ELSE error

\* the part of sendToAPI that runs before the first await
sendToAPI ==
  /\ pc = "running"
  /\ Len(calls) < MaxCalls
  /\ isLoading' = TRUE
  /\ error' = NoError
  /\ calls' = Append(calls, [pc |-> "fetch", image |-> toDataURL(canvas), status |-> 0,
                             fetches |-> 1])
  /\ UNCHANGED <<drawVars, played, serverVars, konvaVars, obsVars>>

FetchResolveNoCheck(i, status) ==
  /\ i \in DOMAIN calls
  /\ calls[i].pc = "fetch"
  /\ calls' = SetCall(i, "blob", status)
  /\ UNCHANGED <<drawVars, isLoading, error, played, serverVars, konvaVars, obsVars>>

\* await fetch(...) resolves with a response of the given status
FetchResolve(i, status) ==
  /\ i \in DOMAIN calls
  /\ calls[i].pc = "fetch"
  /\ calls' = SetCall(i, IF ok(status) THEN "blob" ELSE "text", status)
  /\ UNCHANGED <<drawVars, isLoading, error, played, serverVars, konvaVars, obsVars>>

\* await fetch(...) rejects: catch, finally
FetchReject(i) ==
  /\ i \in DOMAIN calls
  /\ calls[i].pc = "fetch"
  /\ calls' = SetCall(i, "done", 0)
  /\ Finally([set |-> TRUE, kind |-> "network", status |-> 0])
  /\ UNCHANGED <<drawVars, played, serverVars, konvaVars, obsVars>>

\* await response.blob() resolves: new Audio(url).play(); finally
BlobResolve(i) ==
  /\ i \in DOMAIN calls
  /\ calls[i].pc = "blob"
  /\ calls' = SetCall(i, "done", 0)
  /\ played' = played + 1
  /\ Finally(error)
  /\ UNCHANGED <<drawVars, serverVars, konvaVars, obsVars>>

TextResolveClearing(i) ==
  /\ i \in DOMAIN calls
  /\ calls[i].pc = "text"
  /\ calls' = SetCall(i, "done", 0)
  /\ Finally([set |-> TRUE, kind |-> "server", status |-> calls[i].status])
  /\ history' = <<>>
  /\ redo' = <<>>
  /\ UNCHANGED <<pc, isDrawing, color, size, eraseMode, pending, listenerHistory,
                 canvas, slot, played, serverVars, konvaVars, obsVars>>

TextResolveNoFinally(i) ==
  /\ i \in DOMAIN calls
  /\ calls[i].pc = "text"
  /\ calls' = SetCall(i, "done", 0)
  /\ error' = IF pc = "running"
              THEN [set |-> TRUE, kind |-> "server", status |-> calls[i].status]
              ELSE error
  /\ UNCHANGED <<drawVars, isLoading, played, serverVars, konvaVars, obsVars>>

\* await response.text() resolves: throw new Error(...); catch; finally
TextResolve(i) ==
  /\ i \in DOMAIN calls
  /\ calls[i].pc = "text"
  /\ calls' = SetCall(i, "done", 0)
  /\ Finally([set |-> TRUE, kind |-> "server", status |-> calls[i].status])
  /\ UNCHANGED <<drawVars, played, serverVars, konvaVars, obsVars>>

\* reading the response body rejects: catch, finally
BodyReject(i) ==
  /\ i \in DOMAIN calls
  /\ calls[i].pc \in {"blob", "text"}
  /\ calls' = SetCall(i, "done", 0)
  /\ Finally([set |-> TRUE, kind |-> "body", status |-> 0])
  /\ UNCHANGED <<drawVars, played, serverVars, konvaVars, obsVars>>

InFlight == {i \in DOMAIN calls : calls[i].pc # "done"}

---------------------------------------------------------------------------
(* app.post("/api/speak") *)

\* String.prototype.trim on a string of characters
RECURSIVE TrimLeft(_)
TrimLeft(str) == IF str # <<>> /\ Head(str) = " " THEN TrimLeft(Tail(str)) ELSE str
RECURSIVE TrimRight(_)
TrimRight(str) == IF str # <<>> /\ Last(str) = " " THEN TrimRight(Front(str)) ELSE str
trim(str) == TrimRight(TrimLeft(str))

\* result.textAnnotations: none, or a first annotation with this description
NoAnnotation == [has |-> FALSE, description |-> <<>>]
Annotation(str) == [has |-> TRUE, description |-> str]
OcrResults ==
  {NoAnnotation, Annotation(<<>>), Annotation(<<" ">>), Annotation(<<"a">>),
   Annotation(<<" ", "a">>)}

\* detections?.[0]?.description?.trim() || ""
recognizedTextUntrimmed(annotation) ==
  IF annotation.has THEN annotation.description ELSE <<>>

recognizedText(annotation) ==
  IF annotation.has THEN trim(annotation.description) ELSE <<>>

\* req.body.image
MissingImage == [present |-> FALSE, header |-> FALSE, payload |-> 0]
ReqImages ==
  {MissingImage, [present |-> TRUE, header |-> TRUE, payload |-> 1],
   [present |-> TRUE, header |-> FALSE, payload |-> 1]}

\* image.replace(/^data:image\/\w+;base64,/, "") and Buffer.from(..., "base64")
imageBuffer(image) == [image EXCEPT !.header = FALSE].payload

\* the voice id written in the call to eleven.textToSpeech.convert
VoiceId == "SViKDEbKzJqnyyQeoxow"

(* The handlers the repository holds for POST /api/speak that run OCR and then
   synthesis.  Each is described by what its code does at the points where the
   handlers differ:
     checksImage        if (!image) return res.status(400)...
     checksCredentials  if (!credentialsLoaded) return res.status(500)...
     strip              how the data-URL header is taken off
     noTextStatus       the status sent when recognizedText is empty
     voice, voiceId     the voice handed to the synthesis call: "fixed" is the
                        literal voiceId, "env" is process.env.ELEVENLABS_VOICE_ID
                        with voiceId as its || default ("" where there is none)
     answers            res.status(..).json(..) or res.status(..).send(text)
     tts                "sdk": a client call that rejects on any failure;
                        "fetch": fetch(), followed by if (!ttsResponse.ok)      *)
GuardedHandler ==
  [file |-> "index.ts:723", checksImage |-> TRUE, checksCredentials |-> TRUE,
   strip |-> "replace", noTextStatus |-> 444, voice |-> "fixed", voiceId |-> VoiceId,
   answers |-> "json", tts |-> "sdk"]
FetchHandler ==
  [file |-> "index.ts:400", checksImage |-> TRUE, checksCredentials |-> FALSE,
   strip |-> "replace", noTextStatus |-> 444, voice |-> "env",
   voiceId |-> "pNInz6obpgDQGcFmaJgB", answers |-> "json", tts |-> "fetch"]
GenerateHandler ==
  [file |-> "index.ts:304", checksImage |-> TRUE, checksCredentials |-> FALSE,
   strip |-> "split", noTextStatus |-> 404, voice |-> "env",
   voiceId |-> "21m00Tcm4TlvDq8ikWAM", answers |-> "text", tts |-> "sdk"]
BareHandler ==
  [file |-> "part_000:149", checksImage |-> FALSE, checksCredentials |-> FALSE,
   strip |-> "split", noTextStatus |-> 404, voice |-> "env",
   voiceId |-> "", answers |-> "text", tts |-> "sdk"]
Handlers == {GuardedHandler, FetchHandler, GenerateHandler, BareHandler}

\* process.env: ELEVENLABS_VOICE_ID ("" when it is not set) and whether
\* ELEVENLABS_API_KEY is set
DefaultEnv == [ELEVENLABS_VOICE_ID |-> "", ELEVENLABS_API_KEY |-> TRUE]
Envs == [ELEVENLABS_VOICE_ID : {"", "EXAVITQu4vr4xnSDxMaL"}, ELEVENLABS_API_KEY : BOOLEAN]

\* process.env.ELEVENLABS_VOICE_ID || "<default>", or the literal of the handler
voiceOf(h) ==
  IF h.voice = "fixed" THEN h.voiceId
  ELSE IF env.ELEVENLABS_VOICE_ID # "" THEN env.ELEVENLABS_VOICE_ID
  ELSE h.voiceId

\* The bytes handed to OCR.  "replace" takes the header off when there is one;
\* image.split(",")[1] is undefined when the text holds no comma, and
\* Buffer.from(undefined, "base64") throws.
decodeImage(h, image) ==
  IF h.strip = "replace" THEN [ok |-> TRUE, bytes |-> imageBuffer(image)]
  ELSE IF image.header THEN [ok |-> TRUE, bytes |-> image.payload]
  ELSE [ok |-> FALSE, bytes |-> 0]

\* how a synthesis call fails: for which reason, and whether as a non-success
\* HTTP answer of the service or as a call that never got an answer
NoFault == [cause |-> "none", how |-> "none"]
TtsFaults ==
  {[cause |-> "misconfigured", how |-> "status"],
   [cause |-> "unreachable", how |-> "throw"],
   [cause |-> "transient", how |-> "status"],
   [cause |-> "transient", how |-> "throw"]}

NewReq(image) ==
  [image |-> image, srv |-> "recv", status |-> 0, responses |-> 0, audio |-> FALSE,
   body |-> "none", error |-> "none",
   ocrCalls |-> 0, ocrInput |-> 0, ocrDone |-> FALSE, ocrResult |-> NoAnnotation,
   ttsCalls |-> 0, ttsText |-> <<>>, ttsVoice |-> "", ttsFault |-> NoFault]

\* res.status(code).json({error}) / res.status(code).send(text) / res.send(audioBuffer)
Respond(r, code, body, label) ==
  [r EXCEPT !.srv = "sent", !.status = code, !.responses = @ + 1,
            !.audio = (body = "audio"), !.body = body, !.error = label]

\* an error answer, in the form the handler h answers with
Reply(h, r, code, label) == Respond(r, code, h.answers, label)

postSpeakNoReturn(image) ==
  /\ Len(reqs) < MaxReqs
  /\ reqs' = Append(reqs,
       LET r == NewReq(image)
           buf == decodeImage(handler, image)
       IN IF ~image.present
          THEN IF handler.checksImage
               THEN Reply(handler, Reply(handler, r, 400, "image"), 500, "internal")
               ELSE Reply(handler, r, 500, "internal")
          ELSE IF handler.checksCredentials /\ ~credentialsLoaded
          THEN Reply(handler, r, 500, "google")
          ELSE IF ~buf.ok
          THEN Reply(handler, r, 500, "internal")
          ELSE [r EXCEPT !.srv = "ocr", !.ocrCalls = 1, !.ocrInput = buf.bytes])
  /\ UNCHANGED <<drawVars, speakVars, credentialsLoaded, handler, env, konvaVars, obsVars>>

postSpeakNoCredentialsCheck(image) ==
  /\ Len(reqs) < MaxReqs
  /\ reqs' = Append(reqs,
       LET r == NewReq(image)
           buf == decodeImage(handler, image)
       IN IF ~image.present
          THEN IF handler.checksImage
               THEN Reply(handler, r, 400, "image")
               ELSE Reply(handler, r, 500, "internal")
          ELSE IF ~buf.ok
          THEN Reply(handler, r, 500, "internal")
          ELSE [r EXCEPT !.srv = "ocr", !.ocrCalls = 1, !.ocrInput = buf.bytes])
  /\ UNCHANGED <<drawVars, speakVars, credentialsLoaded, handler, env, konvaVars, obsVars>>

\* the handler up to its first await
postSpeak(image) ==
  /\ Len(reqs) < MaxReqs
  /\ reqs' = Append(reqs,
       LET r == NewReq(image)
           buf == decodeImage(handler, image)
       IN IF ~image.present
          THEN IF handler.checksImage
               THEN Reply(handler, r, 400, "image")
               ELSE \* image.split: TypeError on undefined, caught by the handler
                    Reply(handler, r, 500, "internal")
          ELSE IF handler.checksCredentials /\ ~credentialsLoaded
          THEN Reply(handler, r, 500, "google")
          ELSE IF ~buf.ok
          THEN Reply(handler, r, 500, "internal")
          ELSE [r EXCEPT !.srv = "ocr", !.ocrCalls = 1, !.ocrInput = buf.bytes])
  /\ UNCHANGED <<drawVars, speakVars, credentialsLoaded, handler, env, konvaVars, obsVars>>

ocrReturnUntrimmed(i, annotation) ==
  /\ i \in DOMAIN reqs
  /\ reqs[i].srv = "ocr"
  /\ LET r == [reqs[i] EXCEPT !.ocrDone = TRUE, !.ocrResult = annotation]
         text == recognizedTextUntrimmed(annotation)
     IN reqs' = [reqs EXCEPT ![i] =
          IF text = <<>> THEN Reply(handler, r, handler.noTextStatus, "notext")
          ELSE [r EXCEPT !.srv = "tts", !.ttsCalls = @ + 1, !.ttsText = text,
                         !.ttsVoice = voiceOf(handler)]]
  /\ UNCHANGED <<drawVars, speakVars, credentialsLoaded, handler, env, konvaVars, obsVars>>

\* await visionClient.textDetection(...) resolves
ocrReturn(i, annotation) ==
  /\ i \in DOMAIN reqs
  /\ reqs[i].srv = "ocr"
  /\ LET r == [reqs[i] EXCEPT !.ocrDone = TRUE, !.ocrResult = annotation]
         text == recognizedText(annotation)
     IN reqs' = [reqs EXCEPT ![i] =
          IF text = <<>> THEN Reply(handler, r, handler.noTextStatus, "notext")
          ELSE [r EXCEPT !.srv = "tts", !.ttsCalls = @ + 1, !.ttsText = text,
                         !.ttsVoice = voiceOf(handler)]]
  /\ UNCHANGED <<drawVars, speakVars, credentialsLoaded, handler, env, konvaVars, obsVars>>

ocrFaultAsNoText(i) ==
  /\ i \in DOMAIN reqs
  /\ reqs[i].srv = "ocr"
  /\ reqs' = [reqs EXCEPT ![i] = Reply(handler, @, handler.noTextStatus, "notext")]
  /\ UNCHANGED <<drawVars, speakVars, credentialsLoaded, handler, env, konvaVars, obsVars>>

\* await visionClient.textDetection(...) rejects: catch
ocrFault(i) ==
  /\ i \in DOMAIN reqs
  /\ reqs[i].srv = "ocr"
  /\ reqs' = [reqs EXCEPT ![i] = Reply(handler, @, 500, "internal")]
  /\ UNCHANGED <<drawVars, speakVars, credentialsLoaded, handler, env, konvaVars, obsVars>>

\* the synthesis call gave the audio and it was read to its end:
\* res.send(audioBuffer) / audio.pipe(res).  The service accepts a call only
\* when it comes with an API key.
ttsReturn(i) ==
  /\ i \in DOMAIN reqs
  /\ reqs[i].srv = "tts"
  /\ env.ELEVENLABS_API_KEY
  /\ reqs' = [reqs EXCEPT ![i] = Respond(@, 200, "audio", "none")]
  /\ UNCHANGED <<drawVars, speakVars, credentialsLoaded, handler, env, konvaVars, obsVars>>

ttsFaultRetry(i, fault) ==
  /\ i \in DOMAIN reqs
  /\ reqs[i].srv = "tts"
  /\ fault \in TtsFaults
  /\ fault.cause = "misconfigured" <=> ~env.ELEVENLABS_API_KEY
  /\ reqs' = [reqs EXCEPT ![i] =
       IF @.ttsCalls < 2
       THEN [@ EXCEPT !.ttsCalls = @ + 1, !.ttsFault = fault]
       ELSE Reply(handler, [@ EXCEPT !.ttsFault = fault], 500,
                  IF handler.tts = "fetch" /\ fault.how = "status" THEN "tts"
                  ELSE "internal")]
  /\ UNCHANGED <<drawVars, speakVars, credentialsLoaded, handler, env, konvaVars, obsVars>>

\* The synthesis call fails.  A client call rejects and the handler's catch
\* answers; after fetch() a non-success answer is seen by if (!ttsResponse.ok)
\* and a rejected fetch by the catch.
ttsFault(i, fault) ==
  /\ i \in DOMAIN reqs
  /\ reqs[i].srv = "tts"
  /\ fault \in TtsFaults
  /\ fault.cause = "misconfigured" <=> ~env.ELEVENLABS_API_KEY
  /\ reqs' = [reqs EXCEPT ![i] =
       Reply(handler, [@ EXCEPT !.ttsFault = fault], 500,
             IF handler.tts = "fetch" /\ fault.how = "status" THEN "tts" ELSE "internal")]
  /\ UNCHANGED <<drawVars, speakVars, credentialsLoaded, handler, env, konvaVars, obsVars>>

---------------------------------------------------------------------------
(* The DrawingCanvas component (components/DrawingCanvas.tsx): a react-konva
   Stage whose lines are kept in component state.  Mouse events are discrete
   events, so the component has rendered again before the next handler runs
   and each handler reads the lines of the latest render. *)

\* stage.getPointerPosition(): a position on the stage, or null
NoPosition == [x |-> 0, y |-> 0]
StagePositions == {[x |-> 1, y |-> 1], [x |-> 2, y |-> 1]}

NoGesture == [phase |-> "none", line |-> 0]

\* new Konva.Line({points: [pos.x, pos.y], strokeWidth: 5, ...})
KonvaLine(pos) == [points |-> <<pos.x, pos.y>>, strokeWidth |-> 5]

InitDrawingCanvas ==
  /\ lines = <<>>
  /\ isDrawingRef = FALSE
  /\ gesture = NoGesture

handleMouseDown(pos) ==
  /\ isDrawingRef' = TRUE
  /\ IF pos = NoPosition
     THEN /\ lines' = lines
          /\ gesture' = [phase |-> "down", line |-> 0]
     ELSE /\ Len(lines) < MaxStrokes
          /\ lines' = Append(lines, KonvaLine(pos))
          /\ gesture' = [phase |-> "down", line |-> Len(lines) + 1]
  /\ UNCHANGED <<drawVars, speakVars, serverVars, obsVars>>

\* lastLine.points(lastLine.points().concat([point.x, point.y])) changes the
\* Konva.Line in place; setLines(lines.slice()) then renders it
handleMouseMove(point) ==
  /\ isDrawingRef
  /\ point # NoPosition
  /\ lines # <<>>
  /\ Len(lines[Len(lines)].points) < 2 * MaxPoints
  /\ lines' = [lines EXCEPT ![Len(lines)].points = @ \o <<point.x, point.y>>]
  /\ UNCHANGED <<isDrawingRef, gesture, drawVars, speakVars, serverVars, obsVars>>

handleMouseUp ==
  /\ isDrawingRef' = FALSE
  /\ gesture' = [gesture EXCEPT !.phase = "up"]
  /\ UNCHANGED <<lines, drawVars, speakVars, serverVars, obsVars>>

\* the pointer leaves the Stage: the Stage registers no handler for it
pointerLeave ==
  /\ gesture.phase # "left"
  /\ gesture' = [gesture EXCEPT !.phase = "left"]
  /\ UNCHANGED <<lines, isDrawingRef, drawVars, speakVars, serverVars, obsVars>>

\* the imperative handle's clear()
clear ==
  /\ lines' = <<>>
  /\ gesture' = [gesture EXCEPT !.line = 0]
  /\ UNCHANGED <<isDrawingRef, drawVars, speakVars, serverVars, obsVars>>

---------------------------------------------------------------------------

\* the server as it stands when its start-up code has run with every variable set
InitServer ==
  /\ credentialsLoaded = TRUE
  /\ handler = GuardedHandler
  /\ env = DefaultEnv
  /\ reqs = <<>>

Init ==
  /\ InitDraw
  /\ InitDrawingCanvas
  /\ InitSpeak
  /\ InitServer
  /\ slot \in InitSlots

Next ==
  \/ \E sz \in {<<2, 2>>} : MountEffect(sz[1], sz[2])
  \/ StartupRender
  \/ \E cx \in ClientXs, cy \in ClientYs : startDrawing(cx, cy)
  \/ \E cx \in MoveXs, cy \in ClientYs : draw(cx, cy)
  \/ stopDrawing
  \/ undo
  \/ redoAction
  \/ clearAll
  \/ \E sz \in {<<2, 2>>} : resizeCanvas(sz[1], sz[2])
  \/ Reload

Spec == Init /\ [][Next]_vars

(* The speak invocation of the front end, over a drawing of equal one-point
   strokes; the endpoint is seen through the status it answers with. *)
InitSpeakSpec ==
  /\ InitDraw
  /\ InitDrawingCanvas
  /\ InitSpeak
  /\ InitServer
  /\ slot = NoItem

NextSpeak ==
  \/ \E sz \in ParentSizes : MountEffect(sz[1], sz[2])
  \/ startDrawing(1, 1)
  \/ undo
  \/ \E sz \in ParentSizes : resizeCanvas(sz[1], sz[2])
  \/ sendToAPI
  \/ \E i \in 1..MaxCalls, status \in Statuses : FetchResolve(i, status)
  \/ \E i \in 1..MaxCalls : FetchReject(i)
  \/ \E i \in 1..MaxCalls : BlobResolve(i)
  \/ \E i \in 1..MaxCalls : TextResolve(i)
  \/ \E i \in 1..MaxCalls : BodyReject(i)

SpecSpeak == InitSpeakSpec /\ [][NextSpeak]_vars

(* The drawing front end with its style controls, over one pointer-down
   position and one pointer-move position, one canvas size and one stroke fewer
   than Spec draws; each control is set to one new value (the erase button
   toggles). *)
NextStyle ==
  \/ \E sz \in {<<2, 2>>} : MountEffect(sz[1], sz[2])
  \/ (Len(history) + 1 < MaxStrokes /\ startDrawing(1, 1))
  \/ \E cx \in MoveXs, cy \in ClientYs : draw(cx, cy)
  \/ stopDrawing
  \/ undo
  \/ redoAction
  \/ \E c \in Colors : setColor(c)
  \/ \E n \in Sizes : setSize(n)
  \/ setEraseMode

SpecStyle == InitSpeakSpec /\ [][NextStyle]_vars

(* The renderer under draw and erase strokes: pointer-down at two positions,
   pointer-move, pointer-up, the erase button, clear and window resize. *)
NextRender ==
  \/ \E sz \in {<<2, 2>>} : MountEffect(sz[1], sz[2])
  \/ \E cx \in ClientXs, cy \in ClientYs : startDrawing(cx, cy)
  \/ \E cx \in MoveXs, cy \in ClientYs : draw(cx, cy)
  \/ stopDrawing
  \/ setEraseMode
  \/ clearAll
  \/ \E sz \in ParentSizes : resizeCanvas(sz[1], sz[2])

SpecRender == InitSpeakSpec /\ [][NextRender]_vars

(* The thickness of strokes from the slider to the saved snapshot and back:
   pointer-down at one position, undo, the thickness slider and reload. *)
NextThickness ==
  \/ \E sz \in {<<2, 2>>} : MountEffect(sz[1], sz[2])
  \/ StartupRender
  \/ startDrawing(1, 1)
  \/ undo
  \/ \E n \in Sizes : setSize(n)
  \/ Reload

SpecThickness == InitSpeakSpec /\ [][NextThickness]_vars

(* The DrawingCanvas component under the mouse: pointer-down with or without
   a pointer position, pointer-move, pointer-up, the pointer leaving the Stage,
   and clear() from the parent. *)
NextCanvas ==
  \/ \E pos \in StagePositions \cup {NoPosition} : handleMouseDown(pos)
  \/ \E point \in StagePositions : handleMouseMove(point)
  \/ handleMouseUp
  \/ pointerLeave
  \/ clear

SpecCanvas == InitSpeakSpec /\ [][NextCanvas]_vars

(* The /api/speak handler, over the requests any client may send. *)
InitServerSpec ==
  /\ InitDraw
  /\ InitDrawingCanvas
  /\ InitSpeak
  /\ slot = NoItem
  /\ handler \in Handlers
  /\ env \in Envs
  /\ credentialsLoaded \in (IF handler.checksCredentials THEN BOOLEAN ELSE {TRUE})
  /\ reqs = <<>>

NextServer ==
  \/ \E image \in ReqImages : postSpeak(image)
  \/ \E i \in 1..MaxReqs, annotation \in OcrResults : ocrReturn(i, annotation)
  \/ \E i \in 1..MaxReqs : ocrFault(i)
  \/ \E i \in 1..MaxReqs : ttsReturn(i)
  \/ \E i \in 1..MaxReqs, fault \in TtsFaults : ttsFault(i, fault)

SpecServer == InitServerSpec /\ [][NextServer]_vars

(* The page and the server together: every request the server receives is the
   body of a sendToAPI call, and every answer a call sees is the one the handler
   sent.  Requests arrive in the order the calls were made; a call may lose its
   connection at any time before its answer arrives. *)

\* JSON.stringify({ image: imageDataUrl }), as express.json() hands it over
requestBody(call) == [present |-> TRUE, header |-> TRUE, payload |-> 1]

\* the request of the next call reaches the handler
deliverRequest ==
  /\ Len(reqs) < Len(calls)
  /\ postSpeak(requestBody(calls[Len(reqs) + 1]))

\* the answer of request i reaches the call that made it
deliverResponse(i) ==
  /\ i \in DOMAIN reqs
  /\ reqs[i].srv = "sent"
  /\ FetchResolve(i, reqs[i].status)

InitPipeline ==
  /\ InitDraw
  /\ InitDrawingCanvas
  /\ InitSpeak
  /\ slot = NoItem
  /\ handler \in {GuardedHandler, FetchHandler, GenerateHandler}
  /\ env = DefaultEnv
  /\ credentialsLoaded = TRUE
  /\ reqs = <<>>

NextPipeline ==
  \/ \E sz \in {<<2, 2>>} : MountEffect(sz[1], sz[2])
  \/ sendToAPI
  \/ deliverRequest
  \/ \E i \in 1..MaxReqs, annotation \in {Annotation(<<" ">>), Annotation(<<"a">>)} :
       ocrReturn(i, annotation)
  \/ \E i \in 1..MaxReqs : ocrFault(i)
  \/ \E i \in 1..MaxReqs : ttsReturn(i)
  \/ \E i \in 1..MaxReqs, fault \in TtsFaults : ttsFault(i, fault)
  \/ \E i \in 1..MaxCalls : deliverResponse(i)
  \/ \E i \in 1..MaxCalls : FetchReject(i)
  \/ \E i \in 1..MaxCalls : BlobResolve(i)
  \/ \E i \in 1..MaxCalls : TextResolve(i)
  \/ \E i \in 1..MaxCalls : BodyReject(i)

\* Once fetch() has resolved, reading the body settles and the rest of
\* sendToAPI runs: the event loop runs every continuation that is ready.
\* Nothing is assumed about the server or the network before that.
FairPipeline ==
  \A i \in 1..MaxCalls :
    /\ WF_vars(TextResolve(i) \/ BodyReject(i))
    /\ WF_vars(BlobResolve(i) \/ BodyReject(i))

SpecPipeline == InitPipeline /\ [][NextPipeline]_vars /\ FairPipeline

---------------------------------------------------------------------------
(* Claims about the drawing front end, checked under Spec *)

\* C1 (as stated): after n undo calls followed by n redo calls History equals the
\* History h the run started from, for every n and every starting Redo Buffer.
C1_UndoRedoRestoresAlways ==
  (run.active /\ run.u > 0 /\ run.r = run.u) => history = run.h0

\* C1 (amended): after n undo calls followed by n redo calls History equals the
\* History h the run started from, when n is at most the length of h or the
\* Redo Buffer was empty when the run started.
C1_UndoRedoRestores ==
  (run.active /\ run.u > 0 /\ run.r = run.u
     /\ (run.u <= Len(run.h0) \/ run.r0empty))
  => history = run.h0

\* a run of two undo and two redo calls over two different strokes, the first
\* of them holding two different points
C1_Witness ==
  /\ run.active /\ run.u = 2 /\ run.r = 2
  /\ Len(run.h0) = 2
  /\ run.h0[1] # run.h0[2]
  /\ Len(run.h0[1].points) = 2
  /\ run.h0[1].points[1] # run.h0[1].points[2]
  /\ history = run.h0

\* C2: right after startDrawing the Redo Buffer is empty, and a redo issued right
\* after it leaves History as startDrawing left it and the Redo Buffer empty.
C2_StartDrawingClearsRedo ==
  /\ lastOp = "startDrawing" => redo = <<>>
  /\ afterStart.redone => (history = afterStart.h /\ redo = <<>>)

\* startDrawing ran while the Redo Buffer held a stroke, and redo was issued next
C2_Witness ==
  /\ lastOp = "redoAction"
  /\ afterStart.redone
  /\ afterStart.hadRedo
  /\ redo = <<>>
  /\ history = afterStart.h

\* C4 (as stated): after any resize and any History change the surface shows
\* exactly the rendering of the current History, in order.
C4_SurfaceShowsHistory ==
  pc = "running" => canvas.ops = PaintAll(<<>>, history)

\* C6: once a mutating operation has completed, the storage slot holds the
\* serialization of the full current History.
C6_SlotHoldsHistory ==
  pc = "running" => slot = Item(JSONstringify(history))

\* a point was appended to the second stroke and the slot holds both strokes
C6_Witness ==
  /\ pc = "running"
  /\ lastOp = "draw"
  /\ Len(history) = 2
  /\ Len(history[2].points) = 2
  /\ slot = Item(JSONstringify(history))
  /\ JSONparse(slot.text).value = history

\* C7: a session started on a slot that holds the saved non-empty History h ends
\* start-up with History equal to h and an empty Redo Buffer.
C7_ReloadRestores ==
  (pc = "running" /\ lastOp \in {"mount", "startup"} /\ boot.active /\ boot.saved # <<>>)
  => (history = boot.saved /\ redo = <<>>)

\* start-up finished on a saved two-point stroke; the Redo Buffer held a stroke
\* before the reload
C7_Witness ==
  /\ pc = "running"
  /\ lastOp = "startup"
  /\ boot.active
  /\ boot.hadRedo
  /\ Len(boot.saved) >= 1
  /\ Len(boot.saved[1].points) = 2
  /\ boot.saved[1].points[1] # boot.saved[1].points[2]
  /\ history = boot.saved
  /\ redo = <<>>

\* C8 (as stated): start-up never stops on a slot that holds no valid History;
\* it ends in a running session with an empty History.
C8_CorruptSlotStartsEmpty ==
  /\ lastOp \in {"mount", "startup"} => pc \in {"rerender", "running"}
  /\ (lastOp \in {"mount", "startup"} /\ pc = "running" /\ ~boot.active)
       => history = <<>>

---------------------------------------------------------------------------
(* Claims about the speak invocation, checked under SpecSpeak *)

\* C3 (as stated): at most one speak invocation is in flight at any time.
C3_OneSpeakInFlight ==
  Cardinality(InFlight) <= 1

\* C5 (as stated): the image sent for recognition has the same dimensions
\* whatever the size of the live surface.
C5_CanonicalImageSize ==
  \A i \in DOMAIN calls, j \in DOMAIN calls :
    (calls[i].pc = "fetch" /\ calls[j].pc = "fetch")
    => /\ calls[i].image.width = calls[j].image.width
       /\ calls[i].image.height = calls[j].image.height

\* C9: every step of a speak invocation, from its start to its success or its
\* failure, leaves History and the Redo Buffer as they were.
C9_SpeakLeavesStrokes ==
  [][calls' # calls => (history' = history /\ redo' = redo)]_vars

\* an invocation has failed on a 500 answer while History and the Redo Buffer
\* each hold a stroke
C9_Witness ==
  /\ \E i \in DOMAIN calls : calls[i].pc = "done"
  /\ error.set
  /\ error.kind = "server"
  /\ error.status = 500
  /\ history # <<>>
  /\ redo # <<>>

\* C29: playback is started only by the step that has read, to its end, the body
\* of an answer with a success status; an answer with any other status is never
\* read as audio, and an invocation that ends on such an answer, on a network
\* fault or on a body that cannot be read starts no playback and records an
\* error.
C29_PlaybackOnlyOnSuccess ==
  [][/\ played' # played
          => /\ played' = played + 1
             /\ \E i \in DOMAIN calls :
                  /\ calls[i].pc = "blob"
                  /\ ok(calls[i].status)
                  /\ calls'[i].pc = "done"
     /\ \A i \in DOMAIN calls :
          /\ (calls[i].pc = "fetch" /\ calls'[i].pc = "blob") => ok(calls'[i].status)
          /\ (calls[i].pc = "fetch" /\ calls'[i].pc = "text") => ~ok(calls'[i].status)
          /\ (calls[i].pc \in {"fetch", "text"} /\ calls'[i].pc = "done")
               => (played' = played /\ error'.set)
          /\ (calls[i].pc = "blob" /\ calls'[i].pc = "done" /\ played' = played)
               => error'.set]_vars

\* one invocation has played its audio and another has ended on the no-text
\* status with the error recorded
C29_Witness ==
  /\ Len(calls) = 2
  /\ calls[1].pc = "done" /\ calls[2].pc = "done"
  /\ played = 1
  /\ error.set
  /\ error.kind = "server"
  /\ error.status = 444
  /\ ~isLoading

---------------------------------------------------------------------------
(* Claims about the /api/speak handler, checked under SpecServer *)

Blank(str) == \A k \in DOMAIN str : str[k] = " "

\* C10: when OCR returns no text or only whitespace the synthesis collaborator is
\* never called for that request and the request ends with the no-text status;
\* synthesis is called only after OCR returned text that is not blank.
C10_NoTextNoSynthesis ==
  \A i \in DOMAIN reqs :
    /\ (reqs[i].ocrDone /\ (~reqs[i].ocrResult.has \/ Blank(reqs[i].ocrResult.description)))
       => /\ reqs[i].ttsCalls = 0
          /\ reqs[i].srv = "sent"
          /\ reqs[i].status = handler.noTextStatus
          /\ ~reqs[i].audio
    /\ reqs[i].ttsCalls > 0
       => /\ reqs[i].ocrDone
          /\ reqs[i].ocrResult.has
          /\ ~Blank(reqs[i].ocrResult.description)

\* OCR returned a single space and the request ended with 444, synthesis not called
C10_Witness ==
  \E i \in DOMAIN reqs :
    /\ reqs[i].ocrDone
    /\ reqs[i].ocrResult = Annotation(<<" ">>)
    /\ reqs[i].srv = "sent"
    /\ reqs[i].status = handler.noTextStatus
    /\ reqs[i].ttsCalls = 0

\* C11 (as stated): when OCR returned a text that is not blank, synthesis is
\* called with exactly the recognised text and with the voice the configuration
\* names, not with a voice written in the handler.
C11_SynthesisGetsConfiguredVoice ==
  \A i \in DOMAIN reqs :
    reqs[i].ttsCalls > 0
    => /\ reqs[i].ttsText = trim(reqs[i].ocrResult.description)
       /\ env.ELEVENLABS_VOICE_ID # "" => reqs[i].ttsVoice = env.ELEVENLABS_VOICE_ID

\* C15 (as stated): a synthesis call that fails because the service is
\* misconfigured or unreachable is answered differently from one that fails
\* for a transient reason.
C15_UnavailableReportedApart ==
  \A i \in DOMAIN reqs, j \in DOMAIN reqs :
    (/\ reqs[i].ttsFault.cause \in {"misconfigured", "unreachable"}
     /\ reqs[j].ttsFault.cause = "transient")
    => <<reqs[i].status, reqs[i].error>> # <<reqs[j].status, reqs[j].error>>

\* C16 (as stated): a request without an image is answered with status 400 and a
\* JSON error, and neither OCR nor synthesis is called for it.
C16_MissingImageIs400 ==
  \A i \in DOMAIN reqs :
    ~reqs[i].image.present
    => /\ reqs[i].srv = "sent"
       /\ reqs[i].status = 400
       /\ reqs[i].body = "json"
       /\ reqs[i].ocrCalls = 0
       /\ reqs[i].ttsCalls = 0

\* C27 (as stated): an image sent with or without a data-URL header is handed to
\* OCR as the decoding of its base64 payload alone; a payload without the
\* header is neither rejected nor answered with a server error before OCR.
C27_HeaderOptional ==
  \A i \in DOMAIN reqs :
    (reqs[i].image.present /\ credentialsLoaded)
    => /\ reqs[i].ocrCalls = 1
       /\ reqs[i].ocrInput = reqs[i].image.payload

\* the OCR call of request i was made and failed
OcrFailed(i) ==
  /\ reqs[i].ocrCalls = 1
  /\ ~reqs[i].ocrDone
  /\ reqs[i].srv = "sent"

\* C30: in the handlers of index.ts:199, index.ts:400 and index.ts:723, a request
\* whose OCR call or whose synthesis call failed is answered once, with status
\* 500 and a JSON error and without audio; after a failed OCR call synthesis is
\* not called.
C30_FaultIs500Json ==
  handler \in {GuardedHandler, FetchHandler}
  => \A i \in DOMAIN reqs :
       /\ OcrFailed(i) => reqs[i].ttsCalls = 0
       /\ (OcrFailed(i) \/ reqs[i].ttsFault.cause # "none")
            => /\ reqs[i].srv = "sent"
               /\ reqs[i].responses = 1
               /\ reqs[i].status = 500
               /\ reqs[i].body = "json"
               /\ ~reqs[i].audio

\* under the handler of index.ts:400 one request ended on a failed OCR call and
\* another on a non-success answer of the synthesis service
C30_Witness ==
  /\ handler = FetchHandler
  /\ Len(reqs) = 2
  /\ OcrFailed(1)
  /\ reqs[1].status = 500 /\ reqs[1].body = "json" /\ reqs[1].ttsCalls = 0
  /\ reqs[2].ttsFault = [cause |-> "transient", how |-> "status"]
  /\ reqs[2].status = 500 /\ reqs[2].body = "json" /\ reqs[2].error = "tts"
  /\ ~reqs[2].audio

\* C31: in the handler of index.ts:199 and index.ts:723, a request has no
\* response while a collaborator call is pending and exactly one from then on:
\* every way a pending call settles either starts the next call or answers, an
\* answered request never changes again, and the status of the answer is 400,
\* the no-text status, 500 or 200.
C31_ExactlyOneResponse ==
  /\ [](handler = GuardedHandler
        => \A i \in DOMAIN reqs :
             /\ reqs[i].srv \in {"ocr", "tts", "sent"}
             /\ reqs[i].responses = (IF reqs[i].srv = "sent" THEN 1 ELSE 0)
             /\ reqs[i].srv = "sent"
                  => reqs[i].status \in {400, handler.noTextStatus, 500, 200})
  /\ [][handler = GuardedHandler
        => \A i \in DOMAIN reqs :
             /\ reqs[i].srv = "sent" => reqs'[i] = reqs[i]
             /\ (reqs[i].srv = "ocr" /\ reqs'[i] # reqs[i])
                  => reqs'[i].srv \in {"tts", "sent"}
             /\ (reqs[i].srv = "tts" /\ reqs'[i] # reqs[i])
                  => reqs'[i].srv = "sent"]_vars

\* one request without an image was answered 400 and one with an image was
\* answered with the audio, each once
C31_Witness ==
  /\ handler = GuardedHandler
  /\ Len(reqs) = 2
  /\ ~reqs[1].image.present
  /\ reqs[1].status = 400 /\ reqs[1].responses = 1
  /\ reqs[2].image.present
  /\ reqs[2].status = 200 /\ reqs[2].audio /\ reqs[2].responses = 1

---------------------------------------------------------------------------
(* Claims about speak from click to playback, checked under SpecPipeline *)

\* C12 (as stated): the loading indicator is true from the submission of a speak
\* invocation until the answer of every invocation in flight has been handled,
\* and false otherwise.
C12_LoadingWhileInFlight ==
  isLoading <=> InFlight # {}

\* the synthesis call of request i failed
SynthesisFailed(i) ==
  i \in DOMAIN reqs /\ reqs[i].ttsFault.cause # "none"

\* the answer of call i has arrived and is not a success
AnswerRefused(i) ==
  i \in DOMAIN calls /\ calls[i].pc = "text"

\* C13: when the synthesis call of a speak invocation failed, the step that
\* handles the answer records the failure and clears the loading state; once the
\* answer has arrived that step is always taken; and a failure never keeps the
\* page from starting the next invocation.
C13_FailureReportedNotWedged ==
  /\ [][\A i \in DOMAIN calls :
          (SynthesisFailed(i) /\ AnswerRefused(i) /\ calls'[i].pc = "done")
          => (error'.set /\ ~isLoading')]_vars
  /\ \A i \in 1..MaxCalls :
       (SynthesisFailed(i) /\ AnswerRefused(i))
         ~> (i \in DOMAIN calls /\ calls[i].pc = "done")
  /\ []((pc = "running" /\ Len(calls) < MaxCalls) => ENABLED sendToAPI)

\* the first invocation failed on a non-success answer of the synthesis service
\* and was reported; the second was started after that and has reached OCR
C13_Witness ==
  /\ Len(calls) = 2 /\ Len(reqs) = 2
  /\ reqs[1].ttsFault.how = "status"
  /\ reqs[1].status = 500
  /\ calls[1].pc = "done"
  /\ calls[2].pc = "fetch"
  /\ reqs[2].srv = "ocr"
  /\ error = NoError
  /\ isLoading

\* C26: within one speak invocation the page sends one request, and for one
\* request the handler calls OCR at most once and synthesis at most once; once a
\* request has been answered nothing more is called for it, and an invocation
\* that has ended, by success or by failure, is never started again.
C26_SingleAttempt ==
  /\ [](/\ Len(reqs) <= Len(calls)
        /\ \A i \in DOMAIN calls : calls[i].fetches <= 1
        /\ \A i \in DOMAIN reqs : reqs[i].ocrCalls <= 1 /\ reqs[i].ttsCalls <= 1)
  /\ [][/\ \A i \in DOMAIN reqs : reqs[i].srv = "sent" => reqs'[i] = reqs[i]
        /\ \A i \in DOMAIN calls : calls[i].pc = "done" => calls'[i] = calls[i]]_vars

\* the synthesis call of the only request failed after one OCR call and one
\* synthesis call, and the invocation has ended with the failure reported
C26_Witness ==
  /\ Len(calls) = 1 /\ Len(reqs) = 1
  /\ reqs[1].ocrCalls = 1
  /\ reqs[1].ttsCalls = 1
  /\ reqs[1].ttsFault.cause = "transient"
  /\ reqs[1].status = 500
  /\ calls[1].pc = "done"
  /\ calls[1].fetches = 1
  /\ error.set /\ error.kind = "server"
  /\ ~isLoading

\* C14 (as stated): the no-text answer reaches the user as a state of its own and
\* not through the exception path that server failures take.
C14_NoTextOwnState ==
  ~(error.set /\ error.kind = "server" /\ error.status \in {404, 444})

---------------------------------------------------------------------------
(* Claims about the style of strokes, checked under SpecStyle *)

Style(stroke) == <<stroke.size, stroke.color, stroke.erase>>

Min(a, b) == IF a <= b THEN a ELSE b

\* C17: the thickness, colour and erase flag of a Stroke are the values current
\* at its pointer-down; no step changes them on a Stroke that stays in History or
\* in the Redo Buffer, and a Stroke moved by undo or redo keeps them.
C17_StyleFixedAtPointerDown ==
  [][/\ \A k \in 1..Min(Len(history), Len(history')) :
          Style(history'[k]) = Style(history[k])
     /\ \A k \in 1..Min(Len(redo), Len(redo')) :
          Style(redo'[k]) = Style(redo[k])
     /\ (lastOp' = "startDrawing" /\ Len(history') > Len(history))
          => Style(Last(history')) = <<size, color, eraseMode>>
     /\ (lastOp' = "undo" /\ Len(redo') > Len(redo))
          => Style(Last(redo')) = Style(Last(history))
     /\ (lastOp' = "redoAction" /\ Len(history') > Len(history))
          => Style(Last(history')) = Style(Last(redo))]_vars

\* a point was appended to the open stroke after the thickness, the colour and the
\* erase mode had all been changed
C17_Witness ==
  /\ lastOp = "draw"
  /\ isDrawing
  /\ history # <<>>
  /\ Len(Last(history).points) = 2
  /\ Last(history).size # size
  /\ Last(history).color # color
  /\ Last(history).erase # eraseMode

---------------------------------------------------------------------------
(* Claims about the Input Controller, checked under Spec *)

\* C18 (as stated): once a pointer-up has closed a stroke, no step appends a
\* Point to it, whether it lies in History or in the Redo Buffer.
C18_ClosedStrokeNeverExtended ==
  [][/\ \A k \in 1..Min(Len(history), Len(history')) :
          ended.inHistory[k] => history'[k].points = history[k].points
     /\ \A k \in 1..Min(Len(redo), Len(redo')) :
          ended.inRedo[k] => redo'[k].points = redo[k].points]_vars

\* C19: a pointer-move in Idle changes neither History nor the Redo Buffer, and
\* the Points of a Stroke change only by a pointer-move in Drawing.
C19_NoMutationWhileIdle ==
  [][/\ (lastOp' = "draw" /\ ~isDrawing) => (history' = history /\ redo' = redo)
     /\ (\E k \in 1..Min(Len(history), Len(history')) :
            history'[k].points # history[k].points)
          => (isDrawing /\ lastOp' = "draw")]_vars

\* a pointer-move was handled in Idle over a History and a Redo Buffer that both
\* hold strokes
C19_Witness ==
  /\ pc = "running"
  /\ lastOp = "draw"
  /\ ~isDrawing
  /\ history # <<>>
  /\ redo # <<>>

---------------------------------------------------------------------------
(* Claims about the toolbar operations, checked under Spec *)

\* C21: undo on a non-empty History removes exactly its last Stroke and appends
\* that Stroke, Points included, at the end of the Redo Buffer; undo on an empty
\* History changes neither History nor the Redo Buffer.
C21_UndoMovesLastStroke ==
  [][lastOp' = "undo"
       => IF history = <<>>
          THEN history' = history /\ redo' = redo
          ELSE /\ history' = Front(history)
               /\ redo' = Append(redo, Last(history))]_vars

\* two undo calls moved two different strokes to the Redo Buffer, the one moved
\* last holding two points
C21_Witness ==
  /\ lastOp = "undo"
  /\ history = <<>>
  /\ Len(redo) = 2
  /\ redo[1] # redo[2]
  /\ Len(redo[2].points) = 2
  /\ run.active /\ run.u = 2 /\ run.h0 = <<redo[2], redo[1]>>

\* C22: redo on a non-empty Redo Buffer removes exactly its last Stroke and
\* appends it at the end of the current History; redo on an empty Redo Buffer
\* changes neither History nor the Redo Buffer.
C22_RedoAppendsAtEnd ==
  [][lastOp' = "redoAction"
       => IF redo = <<>>
          THEN history' = history /\ redo' = redo
          ELSE /\ history' = Append(history, Last(redo))
               /\ redo' = Front(redo)]_vars

\* a redo put a stroke behind a different stroke that History already held
C22_Witness ==
  /\ lastOp = "redoAction"
  /\ run.active /\ run.r >= 1
  /\ Len(history) = 2
  /\ history[1] # history[2]
  /\ Len(history[2].points) = 2

\* C23: right after clear (new note), from whatever state it was issued in,
\* History and the Redo Buffer are empty and the storage slot holds the
\* serialization of an empty History.
C23_ClearEmptiesAll ==
  lastOp = "clearAll"
  => /\ history = <<>>
     /\ redo = <<>>
     /\ slot = Item(JSONstringify(<<>>))
     /\ JSONparse(slot.text) = [kind |-> "history", value |-> <<>>]

\* clear was issued while a stroke was being drawn, over a History and a Redo
\* Buffer that both held strokes
C23_Witness ==
  /\ lastOp = "clearAll"
  /\ lastClear.active
  /\ lastClear.strokes >= 1
  /\ lastClear.undone >= 1
  /\ lastClear.drawing
  /\ history = <<>>
  /\ redo = <<>>
  /\ slot = Item(<<Tok.lb, Tok.rb>>)

IsPrefix(s, t) == Len(s) <= Len(t) /\ SubSeq(t, 1, Len(s)) = s

\* C24: every Stroke in History and in the Redo Buffer holds at least one Point,
\* and in every step the Points a Stroke held before are still the first Points
\* it holds after, in the same order, whether the Stroke stays where it is or is
\* moved by undo or redo.
C24_PointsOnlyAppended ==
  /\ [](/\ \A k \in DOMAIN history : Len(history[k].points) >= 1
        /\ \A k \in DOMAIN redo : Len(redo[k].points) >= 1)
  /\ [][/\ \A k \in 1..Min(Len(history), Len(history')) :
             IsPrefix(history[k].points, history'[k].points)
        /\ \A k \in 1..Min(Len(redo), Len(redo')) :
             IsPrefix(redo[k].points, redo'[k].points)
        /\ (lastOp' = "undo" /\ history # <<>>)
             => IsPrefix(Last(history).points, Last(redo').points)
        /\ (lastOp' = "redoAction" /\ redo # <<>>)
             => IsPrefix(Last(redo).points, Last(history').points)]_vars

\* a second, different Point was appended to the second stroke, behind a first
\* stroke of two Points
C24_Witness ==
  /\ lastOp = "draw"
  /\ Len(history) = 2
  /\ Len(history[1].points) = 2
  /\ Len(history[2].points) = 2
  /\ history[2].points[1] # history[2].points[2]
  /\ history[2].points[1] = getPos(1, 1)

---------------------------------------------------------------------------
(* Claims about the renderer, checked under SpecRender *)

\* C25: rendering a History onto a surface that already shows a rendering gives
\* the same content as rendering it once: one paint per Stroke, in History
\* order, with the Stroke's Points as path and its thickness as line width, an
\* erase Stroke composited "destination-out" and a draw Stroke "source-over" in
\* its colour; and that is what the surface shows after every change of History.
C25_RenderIdempotent ==
  /\ [](LET once == redrawCanvas(canvas, history)
         IN /\ redrawCanvas(once, history) = once
            /\ Len(once.ops) = Len(history)
            /\ \A k \in DOMAIN history :
                 /\ once.ops[k].path = history[k].points
                 /\ once.ops[k].lineWidth = history[k].size
                 /\ once.ops[k].composite =
                      (IF history[k].erase THEN "destination-out" ELSE "source-over")
                 /\ ~history[k].erase => once.ops[k].strokeStyle = history[k].color)
  /\ [][history' # history
         => /\ canvas' = redrawCanvas(canvas, history')
            /\ redrawCanvas(canvas', history') = canvas']_vars

\* the surface shows a draw stroke of two Points followed by an erase stroke
C25_Witness ==
  /\ pc = "running"
  /\ Len(history) = 2
  /\ ~history[1].erase
  /\ Len(history[1].points) = 2
  /\ history[2].erase
  /\ Len(canvas.ops) = 2
  /\ canvas.ops[1].composite = "source-over"
  /\ canvas.ops[2].composite = "destination-out"
  /\ canvas.ops[1].path = history[1].points

---------------------------------------------------------------------------
(* Claims about the thickness of strokes, checked under SpecThickness *)

Strokes(t) == {t[k] : k \in DOMAIN t}

---------------------------------------------------------------------------
(* Claims about the open stroke, checked under Spec *)

\* C32 (as stated): whenever the controller is in Drawing, History is not empty
\* and its last Stroke is the one the latest pointer-down began, so that no
\* pointer-move faults on an empty History.
C32_DrawingOwnsLastStroke ==
  /\ (pc = "running" /\ isDrawing)
       => /\ history # <<>>
          /\ ended.openAt = Len(history)
  /\ ~(pc = "crashed" /\ lastOp = "draw")

---------------------------------------------------------------------------
(* Claims about start-up, checked under Spec *)

\* C33 (as stated): from the reload of a page whose slot holds a saved non-empty
\* History until the first operation of the user, the slot holds that saved
\* History at every step.
C33_SlotKeptDuringStartup ==
  (boot.active /\ boot.saved # <<>> /\ lastOp \in {"boot", "mount", "startup"})
  => slot = Item(JSONstringify(boot.saved))

---------------------------------------------------------------------------
(* Claims about undo and redo together, checked under Spec *)

RECURSIVE Reverse(_)
Reverse(t) == IF t = <<>> THEN <<>> ELSE Append(Reverse(Tail(t)), Head(t))

\* C34: every undo and every redo leaves the sequence made of the Strokes of
\* History followed by the Strokes of the Redo Buffer in reverse order as it
\* was; so after any run of undo calls followed by redo calls that began with an
\* empty Redo Buffer this sequence is the History the run began with.
C34_UndoRedoConserve ==
  /\ [][lastOp' \in {"undo", "redoAction"}
          => history' \o Reverse(redo') = history \o Reverse(redo)]_vars
  /\ []((run.active /\ run.r0empty) => history \o Reverse(redo) = run.h0)

\* two undo calls and one redo call over two different strokes: one Stroke is in
\* History, the other in the Redo Buffer
C34_Witness ==
  /\ lastOp = "redoAction"
  /\ run.active /\ run.r0empty /\ run.u = 2 /\ run.r = 1
  /\ Len(run.h0) = 2
  /\ run.h0[1] # run.h0[2]
  /\ history = <<run.h0[1]>>
  /\ redo = <<run.h0[2]>>

---------------------------------------------------------------------------
(* Claims about the pointer-move, checked under Spec *)

\* C35 (as stated): a pointer-move handled in Drawing appends one Point to the
\* last Stroke of History and changes nothing else: the other Strokes of
\* History, the style of the last one, the Redo Buffer, the length of History
\* and the Drawing state stay as they were.
C35_MoveAppendsOnePoint ==
  [][(lastOp' = "draw" /\ isDrawing)
       => /\ history # <<>>
          /\ Len(history') = Len(history)
          /\ Front(history') = Front(history)
          /\ Style(Last(history')) = Style(Last(history))
          /\ Len(Last(history').points) = Len(Last(history).points) + 1
          /\ IsPrefix(Last(history).points, Last(history').points)
          /\ redo' = redo
          /\ isDrawing'
          /\ pc' = "running"]_vars

---------------------------------------------------------------------------
(* Claims about the credentials flag, checked under SpecServer *)

\* C36: when the OCR credentials failed to load at start-up, every speak
\* request that carries an image is answered with status 500 and neither the
\* OCR collaborator nor the speech-synthesis collaborator is called for it;
\* the loaded flag never changes after start-up.
C36_NoCredentialsIs500 ==
  /\ []((handler.checksCredentials /\ ~credentialsLoaded)
          => \A i \in DOMAIN reqs :
               reqs[i].image.present
                 => /\ reqs[i].srv = "sent"
                    /\ reqs[i].responses = 1
                    /\ reqs[i].status = 500
                    /\ ~reqs[i].audio
                    /\ reqs[i].ocrCalls = 0
                    /\ reqs[i].ttsCalls = 0)
  /\ [][credentialsLoaded' = credentialsLoaded]_vars

C36_Witness ==
  /\ handler = GuardedHandler
  /\ ~credentialsLoaded
  /\ Len(reqs) = 2
  /\ \A i \in 1..2 :
       /\ reqs[i].image.present
       /\ reqs[i].status = 500 /\ reqs[i].error = "google"
       /\ reqs[i].ocrCalls = 0 /\ reqs[i].ttsCalls = 0
  /\ reqs[1].image # reqs[2].image

---------------------------------------------------------------------------
(* Claims about the DrawingCanvas component, checked under SpecCanvas *)

\* C37 (as stated): a pointer-move extends a line only between a pointer-down
\* and the next pointer-up or the pointer leaving the surface, and the line it
\* extends is the one that pointer-down created; so no move after a pointer-down
\* without a position, after a clear or after the pointer left extends an
\* earlier line.
C37_MoveExtendsOwnLine ==
  [][\A i \in 1..Len(lines) :
       (i <= Len(lines') /\ Len(lines'[i].points) > Len(lines[i].points))
         => (gesture.phase = "down" /\ gesture.line = i)]_vars

====
